---- MODULE Spec2Model ----
(***************************************************************************)
(* A model of the DataViz backend: the conversation store and the session  *)
(* table of src/src/session_manager.py, the rendering executor of          *)
(* src/src/executor.py, the intent pipeline of src/src/brain.py and the    *)
(* /generate handler of src/main.py.                                       *)
(*                                                                         *)
(* Time is read in whole clock units: CURRENT_TIMESTAMP truncates to its   *)
(* unit, so several operations may read the same value.  The session       *)
(* expiry is counted in the same unit (one unit = one hour).               *)
(***************************************************************************)
EXTENDS Integers, Sequences, FiniteSets, TLC

VARIABLES
    now,            \* the wall clock, in hours since day 0 00:00 UTC
    tz,             \* the server's local UTC offset in hours (datetime.now() is local)
    sessions,       \* table sessions: session_id -> [last_active]
    conversations,  \* table conversations: a set of rows
    nextId,         \* the AUTOINCREMENT counter of conversations.id
    pc,             \* per worker thread: its position inside add_message
    arg,            \* per worker thread: the arguments of its add_message call
    appended,       \* history: per key, the ids inserted so far, in insert order
    episode,        \* history: the rows at the last quiescent point and the ids inserted since
    ret,            \* what the last session_manager call returned to its caller
    switchCloses,   \* whether the installed pyplot closes every figure on switch_backend
    figs,           \* pyplot's process-wide figure registry, the current figure last
    rc,             \* pyplot's process-wide rcParams (style settings)
    local_env,      \* per worker thread: the names bound in the dict its script runs in
    epc,            \* per worker thread: its position inside execute_chart_code
    script,         \* per worker thread: the code its execute_chart_code call runs
    result,         \* per worker thread: what its last execute_chart_code call returned
    uploaded,       \* the table of the last upload and the profile stored for it
    rq,             \* per worker thread: the /generate request it is serving
    served          \* the number of /generate requests accepted so far

convVars == <<conversations, nextId, pc, arg, appended, episode>>
execVars == <<switchCloses, figs, rc, local_env, epc, script, result>>
reqVars == <<rq, served>>
vars == <<now, tz, uploaded, sessions, ret, convVars, execVars, reqVars>>

----------------------------------------------------------------------------
(* Program constants *)

MAX_MESSAGES == 10
SESSION_EXPIRY_HOURS == 24

(* Bounds of the model *)

MaxAppends == 12        \* add_message calls explored in the store specifications
MaxStoreClock == 2      \* clock readings explored in the store specifications
MaxHours == 26          \* hours explored in the session specification
MaxRequests == 1        \* /generate requests explored in the request specification
MaxRequestClock == 1    \* clock readings after the first in the request specification
MaxChatRequests == 6    \* /generate requests explored in the chat specification
MaxAnonRequests == 2    \* /generate requests explored in the no-session specification
MaxReapRequests == 1    \* /generate requests explored in the restart specification
MaxKeepAlive == 1       \* add_message calls in the keep-alive specification
MaxReapTurns == 2       \* add_message calls in the reap specification
MaxRows == 2            \* rows of an uploaded table
MaxColumns == 3         \* columns of a demo dataset
MaxOtherTurns == 1      \* appends on the keys other than the first in the key specification

StartHour == 2 * 24     \* the process starts on day 2 at 00:00 UTC

SessionIds == {"s1", "s2"}
FileIds == {"f1", "f2"}
KnownFiles == {"f1"}    \* the file ids get_file_metadata finds
Threads == {"t1", "t2"}
StoreKeys == {<<"s1", "f1">>}
FrameKeys == {<<"s1", "f1">>, <<"s1", "f2">>, <<"s2", "f1">>}
Keys == SessionIds \X FileIds
None == [none |-> TRUE]     \* Python's None, where a record is expected

----------------------------------------------------------------------------
(* Timestamps as the code writes, parses and compares them *)

DateOf(t) == t \div 24
HourOf(t) == t % 24

\* SQLite's CURRENT_TIMESTAMP: the UTC time as text 'YYYY-MM-DD HH:MM:SS'.
\* A text is modelled by its fields in order: date, separator, hour
\* (32 is the character ' ', 84 the character 'T').
CURRENT_TIMESTAMP == <<DateOf(now), 32, HourOf(now)>>

\* datetime.isoformat(): 'YYYY-MM-DDTHH:MM:SS'
isoformat(t) == <<DateOf(t), 84, HourOf(t)>>

\* datetime.fromisoformat(text): accepts either separator
fromisoformat(text) == text[1] * 24 + text[3]

\* datetime.now(): the naive local time of the server
datetime_now == now + tz

\* SQLite's comparison of two TEXT values: character by character
TextLess(a, b) ==
    \E i \in 1..Len(a) :
        /\ \A j \in 1..(i - 1) : a[j] = b[j]
        /\ a[i] < b[i]

----------------------------------------------------------------------------
(* SQL helpers *)

Min(a, b) == IF a < b THEN a ELSE b

\* WHERE session_id = ? AND file_id = ?
RowsOf(rows, s, f) == {r \in rows : r.session_id = s /\ r.file_id = f}

\* ORDER BY timestamp DESC as SQLite answers it through idx_session_timestamp
\* (session_id, timestamp DESC): rows of equal timestamp come in rowid order.
RECURSIVE OrderByTimestampDesc(_)
OrderByTimestampDesc(rows) ==
    IF rows = {} THEN <<>>
    ELSE LET Precedes(a, b) == \/ TextLess(b.timestamp, a.timestamp)
                                \/ (a.timestamp = b.timestamp /\ a.id < b.id)
             first == CHOOSE r \in rows : \A q \in rows \ {r} : Precedes(r, q)
         IN  <<first>> \o OrderByTimestampDesc(rows \ {first})

\* LIMIT -1 OFFSET n
Offset(seq, n) == SubSeq(seq, n + 1, Len(seq))

Range(seq) == {seq[i] : i \in 1..Len(seq)}


----------------------------------------------------------------------------
(* session_manager.py: queries *)

\* SELECT COUNT(*) FROM conversations WHERE session_id = ? AND file_id = ?
get_message_count(s, f) == Cardinality(RowsOf(conversations, s, f))

\* get_conversation_history without the LIMIT clause
get_conversation_history_unlimited(s, f, limit) ==
    LET ordered == OrderByTimestampDesc(RowsOf(conversations, s, f))
        reversed == [i \in 1..Len(ordered) |-> ordered[Len(ordered) + 1 - i]]
    IN  [i \in 1..Len(ordered) |->
            [role |-> reversed[i].role, content |-> reversed[i].message,
             timestamp |-> reversed[i].timestamp]]

\* SELECT ... ORDER BY timestamp DESC LIMIT ?, then reversed(rows)
get_conversation_history(s, f, limit) ==
    LET ordered == OrderByTimestampDesc(RowsOf(conversations, s, f))
        rows == SubSeq(ordered, 1, Min(limit, Len(ordered)))
        reversed == [i \in 1..Len(rows) |-> rows[Len(rows) + 1 - i]]
    IN  [i \in 1..Len(rows) |->
            [role |-> reversed[i].role, content |-> reversed[i].message,
             timestamp |-> reversed[i].timestamp]]

\* cleanup_old_messages deletes everything past the first MAX_MESSAGES of the
\* key's rows in ORDER BY timestamp DESC.
cleanup_old_messages(rows, s, f) ==
    rows \ Range(Offset(OrderByTimestampDesc(RowsOf(rows, s, f)), MAX_MESSAGES))

\* clear_conversation with the file left out of its WHERE clause
clear_conversation_any_file(rows, s, f) == {r \in rows : r.session_id # s}

\* clear_conversation that keeps the newest turn of the key
clear_conversation_keep_newest(rows, s, f) ==
    rows \ Range(Offset(OrderByTimestampDesc(RowsOf(rows, s, f)), 1))

\* DELETE FROM conversations WHERE session_id = ? AND file_id = ?
clear_conversation(rows, s, f) == rows \ RowsOf(rows, s, f)

\* UPDATE sessions SET last_active = CURRENT_TIMESTAMP WHERE session_id = ?
update_session_activity(tbl, s) ==
    IF s \in DOMAIN tbl THEN [tbl EXCEPT ![s].last_active = CURRENT_TIMESTAMP] ELSE tbl

\* get_session: None if the row is missing or its last_active is too old
get_session(s) ==
    IF s \notin DOMAIN sessions THEN None
    ELSE LET last_active_dt == fromisoformat(sessions[s].last_active)
         IN  IF datetime_now - last_active_dt > SESSION_EXPIRY_HOURS THEN None
             ELSE [session_id |-> s, last_active |-> sessions[s].last_active]

\* cleanup_expired_sessions: SELECT session_id FROM sessions WHERE last_active < ?
\* with ? = (datetime.now() - timedelta(hours=24)).isoformat()
ExpiredSessions ==
    LET expiry_time == datetime_now - SESSION_EXPIRY_HOURS
    IN  {s \in DOMAIN sessions : TextLess(sessions[s].last_active, isoformat(expiry_time))}

----------------------------------------------------------------------------
(* Initial state: empty tables (init_session_tables), every worker idle *)

NoRet == [op |-> "None"]

\* A /generate request at position p; what it has not computed yet is None.
\* log0 and count0 remember the key's appends and turn count at its start.
Request(p, sid, fid) ==
    [pc |-> p, session_id |-> sid, file_id |-> fid, history |-> << >>,
     llm_out |-> None, intent |-> None, llm |-> << >>, reply |-> None, brain |-> None,
     response |-> None,
     log0 |-> IF <<sid, fid>> \in Keys THEN appended[<<sid, fid>>] ELSE << >>,
     count0 |-> IF <<sid, fid>> \in Keys THEN get_message_count(sid, fid) ELSE 0]
NoRequest == Request("idle", "None", "None")

Init ==
    /\ now = StartHour
    /\ ret = NoRet
    /\ tz \in {-5, 0, 5}
    /\ sessions = << >>
    /\ conversations = {}
    /\ nextId = 1
    /\ pc = [t \in Threads |-> "idle"]
    /\ arg = [t \in Threads |-> None]
    /\ appended = [k \in Keys |-> <<>>]
    /\ episode = [base |-> {}, new |-> {}]
    /\ switchCloses \in BOOLEAN
    /\ rc = "default"
    /\ figs = <<>>
    /\ local_env = [t \in Threads |-> {}]
    /\ epc = [t \in Threads |-> "idle"]
    /\ script = [t \in Threads |-> "None"]
    /\ result = [t \in Threads |-> None]
    /\ uploaded = None
    /\ rq = [t \in Threads |-> NoRequest]
    /\ served = 0

AllIdle == \A t \in Threads : pc[t] = "idle"

----------------------------------------------------------------------------
(* session_manager.py: create_session *)

create_session(s) ==
    /\ s \notin DOMAIN sessions
    /\ sessions' = [x \in DOMAIN sessions \cup {s} |->
                        IF x = s THEN [last_active |-> CURRENT_TIMESTAMP] ELSE sessions[x]]

CreateSession(s) ==
    /\ create_session(s)
    /\ ret' = [op |-> "create_session", id |-> s, value |-> s]
    /\ UNCHANGED <<now, tz, uploaded, convVars, execVars, reqVars>>

----------------------------------------------------------------------------
(* session_manager.py: add_message, one action per committed transaction *)

\* INSERT INTO conversations (session_id, file_id, role, message); commit
AddInsertCore(t, s, f, role, message) ==
    /\ pc[t] = "idle"
    /\ nextId <= MaxAppends
    /\ LET row == [id |-> nextId, session_id |-> s, file_id |-> f, role |-> role,
                   message |-> message, timestamp |-> CURRENT_TIMESTAMP]
       IN  conversations' = conversations \cup {row}
    /\ nextId' = nextId + 1
    /\ pc' = [pc EXCEPT ![t] = "inserted"]
    /\ arg' = [arg EXCEPT ![t] = [session_id |-> s, file_id |-> f]]
    /\ appended' = [appended EXCEPT ![<<s, f>>] = Append(@, nextId)]
    /\ episode' = IF AllIdle
                  THEN [base |-> conversations, new |-> {nextId}]
                  ELSE [episode EXCEPT !.new = @ \cup {nextId}]

AddInsert(t, s, f, role, message) ==
    /\ AddInsertCore(t, s, f, role, message)
    /\ UNCHANGED <<now, tz, uploaded, sessions, ret, execVars, reqVars>>

\* update_session_activity(session_id)
AddRefresh(t) ==
    /\ pc[t] = "inserted"
    /\ sessions' = update_session_activity(sessions, arg[t].session_id)
    /\ pc' = [pc EXCEPT ![t] = "refreshed"]
    /\ UNCHANGED <<now, tz, uploaded, ret, conversations, nextId, arg, appended, episode, execVars, reqVars>>

\* cleanup_old_messages(session_id, file_id)
AddTrim(t) ==
    /\ pc[t] = "refreshed"
    /\ conversations' = cleanup_old_messages(conversations, arg[t].session_id, arg[t].file_id)
    /\ pc' = [pc EXCEPT ![t] = "idle"]
    /\ arg' = [arg EXCEPT ![t] = None]
    /\ UNCHANGED <<now, tz, uploaded, sessions, ret, nextId, appended, episode, execVars, reqVars>>

\* The clock moves on between two statements.
StoreTick ==
    /\ now < StartHour + MaxStoreClock
    /\ now' = now + 1
    /\ UNCHANGED <<tz, uploaded, sessions, ret, convVars, execVars, reqVars>>

\* The n-th add_message call carries the text n.
StoreCall(t) ==
    \E k \in StoreKeys : AddInsert(t, k[1], k[2], "user", nextId)

NextStore ==
    \/ \E t \in Threads : StoreCall(t)
    \/ \E t \in Threads : AddRefresh(t)
    \/ \E t \in Threads : AddTrim(t)
    \/ \E k \in StoreKeys : CreateSession(k[1])
    \/ StoreTick

\* The store never reads the time zone or the plotting library.
InitStore == Init /\ tz = 0 /\ switchCloses = TRUE

SpecStore == InitStore /\ [][NextStore]_vars

\* A burst: the add_message calls of two workers on a live session within one
\* reading of the clock.
NextBurst ==
    \/ CreateSession("s1")
    \/ \E t \in Threads : "s1" \in DOMAIN sessions /\ StoreCall(t)
    \/ \E t \in Threads : AddRefresh(t)
    \/ \E t \in Threads : AddTrim(t)

SpecBurst == InitStore /\ [][NextBurst]_vars

\* One caller at a time: the calls of worker t1 alone.
NextStoreSeq ==
    \/ StoreCall("t1")
    \/ AddRefresh("t1")
    \/ AddTrim("t1")
    \/ \E k \in StoreKeys : CreateSession(k[1])
    \/ StoreTick

SpecStoreSeq == InitStore /\ [][NextStoreSeq]_vars

----------------------------------------------------------------------------
(* session_manager.py: several keys, and clear_conversation *)

\* POST /api/conversation/clear: clear_conversation(session_id, file_id)
ClearConversation(s, f) ==
    /\ conversations' = clear_conversation(conversations, s, f)
    /\ ret' = [op |-> "clear_conversation", session_id |-> s, file_id |-> f]
    /\ UNCHANGED <<now, tz, uploaded, sessions, nextId, pc, arg, appended, episode, execVars, reqVars>>

KeysCall(t) ==
    \E k \in FrameKeys :
        \* the first key is the busy one; the other keys get a few turns in all
        /\ \/ k = <<"s1", "f1">>
           \/ Len(appended[<<"s1", "f2">>]) + Len(appended[<<"s2", "f1">>]) < MaxOtherTurns
        /\ AddInsertCore(t, k[1], k[2], "user", nextId)
        /\ ret' = NoRet    \* the caller holds no value while a call runs
        /\ UNCHANGED <<now, tz, uploaded, sessions, execVars, reqVars>>

\* One caller at a time: a call starts when the one before has returned.
NextKeys ==
    \/ KeysCall("t1")
    \/ AddRefresh("t1")
    \/ AddTrim("t1")
    \/ \E k \in FrameKeys : AllIdle /\ ClearConversation(k[1], k[2])
    \/ AllIdle /\ CreateSession("s1")

SpecKeys == InitStore /\ [][NextKeys]_vars

----------------------------------------------------------------------------
(* session_manager.py: the session table over time *)

GetSession(s) ==
    /\ ret' = [op |-> "get_session", id |-> s, value |-> get_session(s)]
    /\ UNCHANGED <<now, tz, uploaded, sessions, convVars, execVars, reqVars>>

UpdateSessionActivity(s) ==
    /\ sessions' = update_session_activity(sessions, s)
    /\ ret' = NoRet
    /\ UNCHANGED <<now, tz, uploaded, convVars, execVars, reqVars>>

\* cleanup_expired_sessions that deletes the turns of one file only
CleanupExpiredSessions_one_file ==
    /\ conversations' = {r \in conversations :
                            r.session_id \notin ExpiredSessions \/ r.file_id # "f1"}
    /\ sessions' = [x \in DOMAIN sessions \ ExpiredSessions |-> sessions[x]]
    /\ ret' = [op |-> "cleanup_expired_sessions", value |-> Cardinality(ExpiredSessions)]
    /\ UNCHANGED <<now, tz, uploaded, nextId, pc, arg, appended, episode, execVars, reqVars>>

\* DELETE FROM conversations / DELETE FROM sessions WHERE session_id IN (expired)
CleanupExpiredSessions ==
    /\ conversations' = {r \in conversations : r.session_id \notin ExpiredSessions}
    /\ sessions' = [x \in DOMAIN sessions \ ExpiredSessions |-> sessions[x]]
    /\ ret' = [op |-> "cleanup_expired_sessions", value |-> Cardinality(ExpiredSessions)]
    /\ UNCHANGED <<now, tz, uploaded, nextId, pc, arg, appended, episode, execVars, reqVars>>

Tick ==
    /\ now < StartHour + MaxHours
    /\ now' = now + 1
    /\ ret' = NoRet
    /\ UNCHANGED <<tz, uploaded, sessions, convVars, execVars, reqVars>>

NextSess ==
    \/ \E s \in SessionIds : CreateSession(s)
    \/ \E s \in SessionIds : GetSession(s)
    \/ \E s \in SessionIds : UpdateSessionActivity(s)
    \/ CleanupExpiredSessions
    \/ Tick

\* The session table never reads the plotting library.
InitSess == Init /\ switchCloses = TRUE

SpecSess == InitSess /\ [][NextSess]_vars

\* A session that is kept alive by add_message calls while the clock runs, and
\* asked for with get_session; the process is not restarted.
KeepAliveCall(t) ==
    /\ nextId <= MaxKeepAlive
    /\ "s1" \in DOMAIN sessions
    /\ AddInsertCore(t, "s1", "f1", "user", nextId)
    /\ ret' = NoRet    \* the caller holds no value while a call runs
    /\ UNCHANGED <<now, tz, uploaded, sessions, execVars, reqVars>>

NextKeepAlive ==
    \/ CreateSession("s1")
    \/ KeepAliveCall("t1")
    \/ AddRefresh("t1")
    \/ AddTrim("t1")
    \/ AllIdle /\ GetSession("s1")     \* asked between two add_message calls
    \/ Tick

SpecKeepAlive == InitSess /\ [][NextKeepAlive]_vars

\* The same, on a server whose local time is UTC.
InitSessUtc == InitSess /\ tz = 0

SpecSessUtc == InitSessUtc /\ [][NextSess]_vars

\* Sessions with turns on several files, reaped as the process starts again.
\* Half a day passes between two events.
HalfDay ==
    /\ now + 12 <= StartHour + MaxHours
    /\ now' = now + 12
    /\ ret' = NoRet
    /\ UNCHANGED <<tz, uploaded, sessions, convVars, execVars, reqVars>>

ReapCall(t) ==
    \E k \in FrameKeys :
        /\ nextId <= MaxReapTurns
        /\ k[1] \in DOMAIN sessions
        /\ AddInsertCore(t, k[1], k[2], "user", nextId)
        /\ ret' = NoRet    \* the caller holds no value while a call runs
        /\ UNCHANGED <<now, tz, uploaded, sessions, execVars, reqVars>>

NextReap ==
    \/ \E s \in SessionIds : CreateSession(s)
    \/ ReapCall("t1")
    \/ AddRefresh("t1")
    \/ AddTrim("t1")
    \/ CleanupExpiredSessions
    \/ HalfDay

SpecReap == InitSessUtc /\ [][NextReap]_vars

----------------------------------------------------------------------------
(* matplotlib.pyplot: the process-wide figure registry.  A figure is the set *)
(* of callers whose scripts have drawn on it; the current figure is the last *)
(* of the sequence.                                                          *)

\* What a script does: it plots; it computes without drawing; it raises; it
\* closes every figure; it sets a style (plt.style.use) and plots.
Scripts == {"plot", "nothing", "raise", "close", "restyle",
            "exit", "unsavable", "import", "define", "use"}

\* plt.switch_backend('Agg'): close('all') where the library does so
plt_switch_backend(f) == IF switchCloses THEN <<>> ELSE f

\* plt.gcf(): the current figure, created if there is none
plt_gcf(f) == IF f = <<>> THEN <<{}>> ELSE f

\* plt.clf(): gcf().clear()
plt_clf(f) == [plt_gcf(f) EXCEPT ![Len(plt_gcf(f))] = {}]

\* a plotting command of caller t: draws on gcf()
plt_plot(f, t) == [plt_gcf(f) EXCEPT ![Len(plt_gcf(f))] = @ \cup {t}]

\* plt.get_fignums(), as a truth value
plt_get_fignums(f) == f # <<>>

\* plt.savefig(buf): gcf().savefig(buf); the image shows what the figure holds,
\* drawn with the rcParams in force
plt_savefig_image(f, r) == [drawn |-> plt_gcf(f)[Len(plt_gcf(f))], rc |-> r]

\* plt.close('all')
plt_close_all(f) == <<>>

\* exec(code, {}, local_env): what the script of caller t does to the registry
exec_figs(code, f, t) ==
    IF code \in {"plot", "restyle", "unsavable", "import", "define", "use"} THEN plt_plot(f, t)
    ELSE IF code = "close" THEN plt_close_all(f)
    ELSE f
exec_rc(code, r) == IF code = "restyle" THEN "custom" ELSE r

\* local_env = {'df': df, 'pd': pd, 'plt': plt}
InjectedNames == {"df", "pd", "plt"}

\* The built-in names a script of the model asks for
Builtins == {"__import__", "open", "print"}

\* exec(code, {}, local_env): a name is looked up in local_env, then in the
\* globals dict, then in the builtins; exec puts __builtins__ into a globals
\* dict that lacks it, so the empty dict hides no built-in name.
Resolves(name, e) ==
    LET globals == {"__builtins__"}
    IN  \/ name \in e
        \/ name \in globals
        \/ "__builtins__" \in globals /\ name \in Builtins

\* What the script binds: an assignment or an import binds in local_env.
exec_binds(code, e) ==
    IF code = "define" THEN e \cup {"x"}
    ELSE IF code = "import" /\ Resolves("__import__", e) THEN e \cup {"os"}
    ELSE e

\* The script raises an Exception: a missing column, or a name that does not
\* resolve ("use" reads x, "import" runs an import statement).
exec_raises(code, e) ==
    \/ code = "raise"
    \/ code = "use" /\ ~Resolves("x", e)
    \/ code = "import" /\ ~Resolves("__import__", e)

\* The script raises SystemExit, which is not an Exception.
exec_exits(code) == code = "exit"

\* plt.savefig raises on what the script drew.
savefig_raises(code) == code = "unsavable"

\* str(e) of the exception the call meets
exec_exception(code) ==
    IF code = "raise" THEN "'non_existent_column'"
    ELSE IF code = "use" THEN "name 'x' is not defined"
    ELSE IF code = "import" THEN "__import__ not found"
    ELSE "Image size of 100000000x100000000 pixels is too large."

\* Texts built by an f-string are the sequence of their pieces.
Success(image) == [success |-> TRUE, image |-> image]
NoPlotError ==
    [success |-> FALSE,
     error |-> <<"No plot was generated. Ensure code calls plt.plot() or similar.">>]
ExecutionError_without_message(e) == [success |-> FALSE, error |-> <<"Execution error: ">>]
ExecutionError(e) == [success |-> FALSE, error |-> <<"Execution error: ", e>>]

\* The call ends with an exception that leaves execute_chart_code.
Propagated(e) == [raised |-> e]

----------------------------------------------------------------------------
(* executor.py: execute_chart_code, one action per pyplot call *)

ExecStartCore(t, code) ==
    /\ epc[t] = "idle"
    /\ epc' = [epc EXCEPT ![t] = "switch_backend"]
    /\ script' = [script EXCEPT ![t] = code]
    /\ result' = [result EXCEPT ![t] = None]
    /\ local_env' = [local_env EXCEPT ![t] = InjectedNames]
    /\ UNCHANGED <<switchCloses, figs, rc>>

ExecStart(t, code) ==
    /\ ExecStartCore(t, code)
    /\ UNCHANGED <<now, tz, uploaded, sessions, ret, convVars, reqVars>>

ExecSwitchBackend(t) ==
    /\ epc[t] = "switch_backend"
    /\ figs' = plt_switch_backend(figs)
    /\ epc' = [epc EXCEPT ![t] = "clf"]
    /\ UNCHANGED <<now, tz, uploaded, sessions, ret, convVars, reqVars, switchCloses, rc, local_env, script, result>>

ExecClf(t) ==
    /\ epc[t] = "clf"
    /\ figs' = plt_clf(figs)
    /\ epc' = [epc EXCEPT ![t] = "exec"]
    /\ UNCHANGED <<now, tz, uploaded, sessions, ret, convVars, reqVars, switchCloses, rc, local_env, script, result>>

ExecScript(t) ==
    /\ epc[t] = "exec"
    /\ figs' = exec_figs(script[t], figs, t)
    /\ rc' = exec_rc(script[t], rc)
    /\ local_env' = [local_env EXCEPT ![t] = exec_binds(script[t], @)]
    /\ IF exec_exits(script[t])
       THEN \* SystemExit passes the except clause and leaves the function
            /\ epc' = [epc EXCEPT ![t] = "idle"]
            /\ result' = [result EXCEPT ![t] = Propagated("SystemExit")]
       ELSE /\ epc' = [epc EXCEPT ![t] =
                    IF exec_raises(script[t], local_env[t]) THEN "except" ELSE "get_fignums"]
            /\ UNCHANGED result
    /\ UNCHANGED <<now, tz, uploaded, sessions, ret, convVars, reqVars, switchCloses, script>>

\* if plt.get_fignums(): ... else: return the no-plot error
ExecGetFignums(t) ==
    /\ epc[t] = "get_fignums"
    /\ IF plt_get_fignums(figs)
       THEN /\ epc' = [epc EXCEPT ![t] = "savefig"]
            /\ UNCHANGED result
       ELSE /\ epc' = [epc EXCEPT ![t] = "idle"]
            /\ result' = [result EXCEPT ![t] = NoPlotError]
    /\ UNCHANGED <<now, tz, uploaded, sessions, ret, convVars, reqVars, switchCloses, figs, rc, local_env, script>>

\* plt.savefig(img_buf, ...); the image is kept until the return
ExecSavefig(t) ==
    /\ epc[t] = "savefig"
    /\ figs' = plt_gcf(figs)
    /\ IF savefig_raises(script[t])
       THEN /\ epc' = [epc EXCEPT ![t] = "except"]
            /\ UNCHANGED result
       ELSE /\ epc' = [epc EXCEPT ![t] = "close"]
            /\ result' = [result EXCEPT ![t] = [image |-> plt_savefig_image(figs, rc)]]
    /\ UNCHANGED <<now, tz, uploaded, sessions, ret, convVars, reqVars, switchCloses, rc, local_env, script>>

\* plt.close('all'); return {"success": True, "image": img_base64}
ExecClose(t) ==
    /\ epc[t] = "close"
    /\ figs' = plt_close_all(figs)
    /\ result' = [result EXCEPT ![t] = Success(result[t].image)]
    /\ epc' = [epc EXCEPT ![t] = "idle"]
    /\ UNCHANGED <<now, tz, uploaded, sessions, ret, convVars, reqVars, switchCloses, rc, local_env, script>>

\* except Exception: plt.close('all'); return the execution error
ExecExcept(t) ==
    /\ epc[t] = "except"
    /\ figs' = plt_close_all(figs)
    /\ result' = [result EXCEPT ![t] = ExecutionError(exec_exception(script[t]))]
    /\ epc' = [epc EXCEPT ![t] = "idle"]
    /\ UNCHANGED <<now, tz, uploaded, sessions, ret, convVars, reqVars, switchCloses, rc, local_env, script>>

ExecStep(t) ==
    \/ ExecSwitchBackend(t)
    \/ ExecClf(t)
    \/ ExecScript(t)
    \/ ExecGetFignums(t)
    \/ ExecSavefig(t)
    \/ ExecClose(t)
    \/ ExecExcept(t)

\* execute_chart_code run from start to end with no other caller
execute_chart_code(code, f0, rc0, t) ==
    LET f1 == plt_clf(plt_switch_backend(f0))
        f2 == exec_figs(code, f1, t)
    IN  IF exec_exits(code) THEN Propagated("SystemExit")
        ELSE IF exec_raises(code, InjectedNames) THEN ExecutionError(exec_exception(code))
        ELSE IF ~plt_get_fignums(f2) THEN NoPlotError
        ELSE IF savefig_raises(code) THEN ExecutionError(exec_exception(code))
        ELSE Success(plt_savefig_image(f2, exec_rc(code, rc0)))

NextExec ==
    \/ \E t \in Threads, code \in Scripts : ExecStart(t, code)
    \/ \E t \in Threads : ExecStep(t)

\* One caller at a time: the calls of worker t1 alone.
NextExecSeq ==
    \/ \E code \in Scripts : ExecStart("t1", code)
    \/ ExecStep("t1")

\* The executor never reads the clock.
InitExec == Init /\ tz = 0

SpecExec == InitExec /\ [][NextExec]_vars

SpecExecSeq == InitExec /\ [][NextExecSeq]_vars

\* The handlers of main.py run one worker whose scripts leave no figure open,
\* so what switch_backend does to open figures makes no difference to them.
InitRequest == Init /\ tz = 0 /\ switchCloses = TRUE

----------------------------------------------------------------------------
(* dataloader.py: generate_profile.  A Python value is a record named after  *)
(* its type: [float |-> ...], [int |-> ...], [str |-> ...], [list |-> a      *)
(* sequence], [dict |-> a function on its keys], or None.  A table has float *)
(* columns, as read_csv makes them of numbers, empty cells and inf; a float  *)
(* is known by its class: finite, NaN, or one of the infinities.             *)

Floats == {"finite", "nan", "inf", "-inf"}

Tables ==
    UNION {{[columns |-> cols, rows |-> rows] :
                rows \in UNION {[1..n -> [Range(cols) -> Floats]] : n \in 0..MaxRows}} :
            cols \in {<<"a">>, <<"a", "b">>}}
    \cup {[columns |-> << >>, rows |-> << >>]}

\* df.describe(include='all').to_dict(), and {} where describe raises (a table
\* without columns)
describe(df) ==
    LET cells(c) == {df.rows[i][c] : i \in 1..Len(df.rows)} \ {"nan"}
        count(c) == Cardinality({i \in 1..Len(df.rows) : df.rows[i][c] # "nan"})
        mean(c) == IF cells(c) = {} \/ {"inf", "-inf"} \subseteq cells(c) THEN "nan"
                   ELSE IF "inf" \in cells(c) THEN "inf"
                   ELSE IF "-inf" \in cells(c) THEN "-inf"
                   ELSE "finite"
        std(c) == IF count(c) < 2 \/ cells(c) # {"finite"} THEN "nan" ELSE "finite"
        min(c) == IF cells(c) = {} THEN "nan"
                  ELSE IF "-inf" \in cells(c) THEN "-inf"
                  ELSE IF "finite" \in cells(c) THEN "finite" ELSE "inf"
        max(c) == IF cells(c) = {} THEN "nan"
                  ELSE IF "inf" \in cells(c) THEN "inf"
                  ELSE IF "finite" \in cells(c) THEN "finite" ELSE "-inf"
    IN  IF df.columns = << >> THEN << >>
        ELSE [c \in Range(df.columns) |->
                [dict |-> [count |-> [float |-> "finite"],
                           mean |-> [float |-> mean(c)], std |-> [float |-> std(c)],
                           min |-> [float |-> min(c)], max |-> [float |-> max(c)]]]]

\* the dict generate_profile builds before it cleans it
profile_dict(df) ==
    [dict |->
        [columns |-> [list |-> [i \in 1..Len(df.columns) |-> [str |-> df.columns[i]]]],
         dtypes |-> [dict |-> [c \in Range(df.columns) |-> [str |-> "float64"]]],
         row_count |-> [int |-> Len(df.rows)],
         sample_rows |-> [list |-> [i \in 1..Min(5, Len(df.rows)) |->
                            [dict |-> [c \in Range(df.columns) |->
                                        [float |-> df.rows[i][c]]]]]],
         numeric_summary |-> [dict |-> describe(df)]]]

\* clean_nan without the descent into lists
RECURSIVE clean_nan_dicts_only(_)
clean_nan_dicts_only(obj) ==
    IF "float" \in DOMAIN obj
    THEN IF obj.float \in {"nan", "inf", "-inf"} THEN None ELSE obj
    ELSE IF "dict" \in DOMAIN obj
    THEN [dict |-> [k \in DOMAIN obj.dict |-> clean_nan_dicts_only(obj.dict[k])]]
    ELSE obj

\* clean_nan(obj): isinstance float, dict, list, anything else
RECURSIVE clean_nan(_)
clean_nan(obj) ==
    IF "float" \in DOMAIN obj
    THEN IF obj.float \in {"nan", "inf", "-inf"} THEN None ELSE obj
    ELSE IF "dict" \in DOMAIN obj
    THEN [dict |-> [k \in DOMAIN obj.dict |-> clean_nan(obj.dict[k])]]
    ELSE IF "list" \in DOMAIN obj
    THEN [list |-> [i \in 1..Len(obj.list) |-> clean_nan(obj.list[i])]]
    ELSE obj

generate_profile(df) == clean_nan(profile_dict(df))

----------------------------------------------------------------------------
(* suggestions.py.  A suggestion is its type and the pieces of its query;    *)
(* the description and the icon follow from them.                            *)

\* word in str(text).lower(), for the dtypes and the column names of the model
Contains(word, text) ==
    text \in CASE word = "int" -> {"int64"}
              [] word = "float" -> {"float64"}
              [] word = "date" -> {"datetime64[ns]", "Order Date"}
              [] word = "time" -> {"datetime64[ns]", "Timestamp"}

analyze_column_types(profile) ==
    LET list == IF "columns" \in DOMAIN profile.dict THEN profile.dict.columns.list ELSE << >>
        columns == [i \in 1..Len(list) |-> list[i].str]
        dtypes == IF "dtypes" \in DOMAIN profile.dict THEN profile.dict.dtypes.dict ELSE << >>
        dtype(col) == IF col \in DOMAIN dtypes THEN dtypes[col].str ELSE "object"
        kind(col) ==
            IF Contains("int", dtype(col)) \/ Contains("float", dtype(col)) THEN "numeric"
            ELSE IF Contains("date", dtype(col)) \/ Contains("time", dtype(col)) THEN "date"
            ELSE IF Contains("date", col) \/ Contains("time", col) THEN "date"
            ELSE "categorical"
    IN  [numeric |-> SelectSeq(columns, LAMBDA col : kind(col) = "numeric"),
         categorical |-> SelectSeq(columns, LAMBDA col : kind(col) = "categorical"),
         date |-> SelectSeq(columns, LAMBDA col : kind(col) = "date")]

Suggestion(type, query) == [type |-> type, query |-> query]

\* The final fall-back taken once and not in a loop
fill_to_three_once(suggestions, numeric) ==
    IF Len(suggestions) >= 3 THEN suggestions
    ELSE Append(suggestions, Suggestion("preview", <<"Show me the first few rows of data">>))

\* suggestions.py 176-190: while len(suggestions) < 3
RECURSIVE fill_to_three(_, _)
fill_to_three(suggestions, numeric) ==
    IF Len(suggestions) >= 3 THEN suggestions
    ELSE fill_to_three(
            Append(suggestions,
                   IF numeric # << >>
                   THEN Suggestion("simple", <<"Create a line plot of ", numeric[1]>>)
                   ELSE Suggestion("preview", <<"Show me the first few rows of data">>)),
            numeric)

generate_suggestions(profile) ==
    LET col_types == analyze_column_types(profile)
        numeric == col_types.numeric
        categorical == col_types.categorical
        date == col_types.date
        Some(list) == list # << >>
        \* suggestions.append(x) under the condition of the strategy, which from
        \* the second strategy on asks for len(suggestions) < 3 as well
        Add(suggestions, room, cond, x) ==
            CHOOSE r \in {IF cond /\ (room => Len(held) < 3) THEN Append(held, x) ELSE held :
                            held \in {suggestions}} : TRUE
        s1 == Add(<< >>, FALSE, Some(date) /\ Some(numeric),
                  Suggestion("trend", <<"Create a line chart showing ", numeric[1],
                                        " over ", date[1]>>))
        s2 == Add(s1, TRUE, Some(categorical) /\ Some(numeric),
                  Suggestion("comparison", <<"Create a bar chart of ", numeric[1],
                                             " grouped by ", categorical[1]>>))
        s3 == Add(s2, TRUE, Some(numeric),
                  Suggestion("distribution", <<"Create a histogram of ", numeric[1],
                                               " distribution">>))
        s4 == Add(s3, TRUE, Len(numeric) >= 2,
                  Suggestion("correlation", <<"Create a scatter plot of ", numeric[1],
                                              " vs ", numeric[2]>>))
        s5 == Add(s4, TRUE, Some(categorical) /\ Some(numeric),
                  Suggestion("ranking", <<"Create a horizontal bar chart showing top 10 ",
                                          categorical[1], " by ", numeric[1]>>))
        s6 == Add(s5, TRUE, Some(categorical),
                  Suggestion("breakdown", <<"Create a pie chart showing the distribution of ",
                                            categorical[1]>>))
        s7 == Add(s6, TRUE, Some(numeric),
                  Suggestion("boxplot", <<"Create a box plot of ", numeric[1],
                                          " to show statistical distribution">>))
        s8 == Add(s7, TRUE, Len(categorical) >= 2 /\ Some(numeric),
                  Suggestion("grouped", <<"Create a grouped bar chart of ", numeric[1], " by ",
                                          categorical[1], " and ", categorical[2]>>))
        s9 == Add(s8, TRUE, Some(date) /\ Len(numeric) >= 2,
                  Suggestion("stacked", <<"Create a stacked area chart of ", numeric[1],
                                          " and ", numeric[2], " over ", date[1]>>))
        s10 == Add(s9, TRUE, Len(numeric) >= 3,
                   Suggestion("heatmap",
                        <<"Create a heatmap showing correlation between all numeric columns">>))
        all_cols == IF "columns" \in DOMAIN profile.dict THEN profile.dict.columns.list
                    ELSE << >>
        s11 == Add(s10, TRUE, Len(all_cols) >= 2,
                   Suggestion("basic", <<"Create a chart visualizing ", all_cols[1].str,
                                         " and ", all_cols[2].str>>))
    IN  CHOOSE r \in {SubSeq(filled, 1, Min(3, Len(filled))) :
                        filled \in {fill_to_three(s11, numeric)}} : TRUE

\* The columns of the demo datasets and their dtypes
DemoDtypes ==
    [sales |-> "int64", price |-> "float64", qty |-> "int64", created |-> "datetime64[ns]",
     region |-> "object", city |-> "object"]
    @@ [c \in {"Order Date"} |-> "object"]

\* The profiles of the demo datasets, as far as generate_suggestions reads them
DemoProfiles ==
    {[dict |-> [columns |-> [list |-> [i \in 1..Len(cols) |-> [str |-> cols[i]]]],
                dtypes |-> [dict |-> [c \in Range(cols) |-> [str |-> DemoDtypes[c]]]]]] :
        cols \in {q \in UNION {[1..n -> DOMAIN DemoDtypes] : n \in 0..MaxColumns} :
                    \A i, j \in 1..Len(q) : q[i] = q[j] => i = j}}

\* main.py /upload: load the file, profile the table, store the profile under
\* a fresh file id, which is written once, and suggest charts for it
Upload(df) ==
    /\ uploaded = None
    /\ uploaded' = [df |-> df, profile |-> generate_profile(df),
                    suggestions |-> generate_suggestions(generate_profile(df))]
    /\ UNCHANGED <<now, tz, sessions, ret, convVars, execVars, reqVars>>

NextData == \E df \in Tables : Upload(df)

\* main.py /api/load-demo: profile the demo dataset and suggest charts for it
LoadDemoDataset(profile) ==
    /\ uploaded = None
    /\ uploaded' = [profile |-> profile, suggestions |-> generate_suggestions(profile)]
    /\ UNCHANGED <<now, tz, sessions, ret, convVars, execVars, reqVars>>

NextDemo == \E profile \in DemoProfiles : LoadDemoDataset(profile)

SpecDemo == InitRequest /\ [][NextDemo]_vars


SpecData == InitRequest /\ [][NextData]_vars

----------------------------------------------------------------------------
(* Completion texts.  A text is a sequence of tokens: a Markdown fence with  *)
(* or without a language tag glued to it, white space, prose, one JSON value *)
(* or one piece of Python code.                                              *)

Tok(k) == [tok |-> k]
WS == Tok("ws")
FENCE == Tok("fence")             \* three backticks
FENCE_JSON == Tok("fence_json")   \* three backticks and the tag json
PROSE == Tok("prose")
JsonTok(v) == [tok |-> "json", value |-> v]

\* JSON values as json.loads returns them
Obj(f) == [type |-> "object", fields |-> f]
NonObjects == {[type |-> x] : x \in {"array", "null", "number", "string", "true"}}

\* A key that is absent, or present with one of vals
Opt(key, vals) == {<< >>} \cup {[x \in {key} |-> v] : v \in vals}

NullText == "None"      \* a JSON null / Python None where a text is expected

IntentObjects ==
    {Obj(a @@ b @@ c @@ d) :
        a \in Opt("is_related", BOOLEAN),
        b \in Opt("is_visualization", BOOLEAN),
        c \in Opt("needs_clarification", BOOLEAN),
        d \in Opt("clarification_message", {"What columns?", NullText})}


\* What the completion call of the classifier may do
ClassifierOutcomes ==
    {[kind |-> "raise"], [kind |-> "none"], [kind |-> "text", text |-> << >>],
     [kind |-> "text", text |-> <<PROSE>>],
     [kind |-> "text", text |-> <<FENCE_JSON, WS, PROSE, WS, FENCE>>]}
    \cup {[kind |-> "text", text |-> <<JsonTok(v)>>] : v \in IntentObjects \cup NonObjects}
    \cup {[kind |-> "text", text |-> <<WS, FENCE_JSON, WS, JsonTok(v), WS, FENCE, WS>>] :
            v \in NonObjects \cup
                {w \in IntentObjects : Cardinality(DOMAIN w.fields) = 4}}
    \cup {[kind |-> "text", text |-> <<PROSE, WS, JsonTok(v)>>] :
            v \in NonObjects \cup {Obj(<< >>)}}

\* str.strip()
RECURSIVE LStrip(_)
LStrip(text) ==
    IF text # << >> /\ Head(text) = WS THEN LStrip(Tail(text)) ELSE text

RECURSIVE RStrip(_)
RStrip(text) ==
    IF text # << >> /\ text[Len(text)] = WS
    THEN RStrip(SubSeq(text, 1, Len(text) - 1)) ELSE text

Strip(text) == RStrip(LStrip(text))

\* str.replace(k, "")
Remove(text, k) == SelectSeq(text, LAMBDA x : x # k)

\* json.loads(text): one JSON value, white space around it allowed
json_loads(text) ==
    LET body == Remove(text, WS)
    IN  IF Len(body) = 1 /\ body[1].tok = "json"
        THEN [ok |-> TRUE, value |-> body[1].value]
        ELSE [ok |-> FALSE]

\* response_text.strip(), then the two replace calls that drop the fences
CleanedText(text) == Remove(Remove(Strip(text), FENCE_JSON), FENCE)

----------------------------------------------------------------------------
(* brain.py: detect_intent and the routing of generate_visualization *)

Fallback ==
    Obj([is_related |-> TRUE, is_visualization |-> TRUE,
         needs_clarification |-> FALSE, rationale |-> "Parsing failed: <exception>"])

\* detect_intent with the except clause narrowed to json.JSONDecodeError
detect_intent_narrow_except(outcome) ==
    IF outcome.kind \in {"raise", "none"} THEN [type |-> "exception"]
    ELSE LET parsed == json_loads(CleanedText(outcome.text))
         IN  IF parsed.ok THEN parsed.value ELSE Fallback

\* try: json.loads(cleaned reply) except Exception: the fallback
detect_intent(outcome) ==
    IF outcome.kind = "raise" THEN Fallback             \* call_llm raised
    ELSE IF outcome.kind = "none" THEN Fallback         \* None.strip(): AttributeError
    ELSE LET parsed == json_loads(CleanedText(outcome.text))
         IN  IF parsed.ok THEN parsed.value ELSE Fallback

\* intent_data.get(key, default)
Get(intent, key, default) ==
    IF key \in DOMAIN intent.fields THEN intent.fields[key] ELSE default

ScopeMessage ==
    "I can only help with visualizing or understanding this dataset. Please ask a question about the data."
ClarifyDefault == "Could you contain more details?"

\* Route with the clarification test moved in front of the scope test
Route_clarify_first(intent) ==
    IF intent.type # "object" THEN "AttributeError"
    ELSE IF Get(intent, "needs_clarification", FALSE) THEN "clarify"
    ELSE IF ~Get(intent, "is_related", FALSE) THEN "skip"
    ELSE IF ~Get(intent, "is_visualization", FALSE) THEN "qa"
    ELSE "codegen"

\* Route without the clarification test
Route_without_clarify(intent) ==
    IF intent.type # "object" THEN "AttributeError"
    ELSE IF ~Get(intent, "is_related", FALSE) THEN "skip"
    ELSE IF ~Get(intent, "is_visualization", FALSE) THEN "qa"
    ELSE "codegen"

\* generate_visualization from the intent to its next completion call or result
Route(intent) ==
    IF intent.type # "object" THEN "AttributeError"     \* no .get on a non-dict
    ELSE IF ~Get(intent, "is_related", FALSE) THEN "skip"
    ELSE IF ~Get(intent, "is_visualization", FALSE) THEN "qa"
    ELSE IF Get(intent, "needs_clarification", FALSE) THEN "clarify"
    ELSE "codegen"

Skipped(message) == [status |-> "skipped", message |-> message]

----------------------------------------------------------------------------
(* brain.py: code synthesis.  Python code is a token carrying what it does. *)

FENCE_PYTHON == Tok("fence_python")     \* three backticks and the tag python
TAG == Tok("tag")                       \* another language tag after a fence
CodeTok(k) == [tok |-> "code", script |-> k]

\* the tokens that begin with three backticks
Fences == {FENCE, FENCE_JSON, FENCE_PYTHON}

\* The scripts the synthesis replies carry
SynthesizedScripts == {"plot", "nothing", "raise"}

CodegenOutcomes ==
    {[kind |-> "raise"], [kind |-> "none"]}
    \cup {[kind |-> "text", text |-> <<FENCE_PYTHON, WS, CodeTok(k), WS, FENCE>>] : k \in SynthesizedScripts}
    \cup {[kind |-> "text", text |-> <<CodeTok(k)>>] : k \in SynthesizedScripts}
    \cup {[kind |-> "text", text |-> <<FENCE, WS, CodeTok(k), WS, FENCE>>] : k \in SynthesizedScripts}
    \cup {[kind |-> "text", text |-> <<FENCE, TAG, WS, CodeTok(k), WS, FENCE>>] : k \in SynthesizedScripts}
    \cup {[kind |-> "text",
           text |-> <<PROSE, WS, FENCE_PYTHON, WS, CodeTok(k), WS, FENCE, WS, PROSE>>] :
            k \in SynthesizedScripts}
    \cup {[kind |-> "text",
           text |-> <<FENCE, WS, CodeTok("nothing"), WS, FENCE, WS,
                      FENCE_PYTHON, WS, CodeTok("plot"), WS, FENCE>>]}

QAOutcomes ==
    {[kind |-> "raise"], [kind |-> "none"], [kind |-> "text", text |-> "The answer."]}

\* text.split(sep)[1] and text.split(sep)[0], sep given as the tokens it matches
Positions(text, sep) == {i \in 1..Len(text) : text[i] \in sep}
FirstPos(text, sep) ==
    CHOOSE i \in Positions(text, sep) : \A j \in Positions(text, sep) : i <= j
BeforeFirst(text, sep) ==
    IF Positions(text, sep) = {} THEN text
    ELSE SubSeq(text, 1, FirstPos(text, sep) - 1)
AfterFirst(text, sep) ==
    SubSeq(text, FirstPos(text, sep) + 1, Len(text))

\* The code extraction of generate_visualization
extract_code(text) ==
    IF Positions(text, {FENCE_PYTHON}) # {}
    THEN Strip(BeforeFirst(BeforeFirst(AfterFirst(text, {FENCE_PYTHON}), {FENCE_PYTHON}),
                           Fences))
    ELSE IF Positions(text, Fences) # {}
    THEN Strip(BeforeFirst(AfterFirst(text, Fences), Fences))
    ELSE text

\* What exec() of a code body does: anything that is not code is an error
ScriptOf(code) ==
    LET body == Remove(code, WS)
    IN  IF \E i \in 1..Len(body) : body[i].tok # "code" THEN "raise"
        ELSE IF \E i \in 1..Len(body) : body[i].script = "raise" THEN "raise"
        ELSE IF \E i \in 1..Len(body) : body[i].script = "plot" THEN "plot"
        ELSE "nothing"

TextResult(message) == [status |-> "success", message |-> message, type |-> "text_response"]
CodeResult(code) ==
    [status |-> "success", code |-> code, message |-> "Code generated.",
     type |-> "chart_response"]
ErrorResult(message) == [status |-> "error", message |-> message]

\* answer_question with the completion text replaced by a canned reply
answer_question_rewritten(outcome) ==
    IF outcome.kind = "raise" THEN ErrorResult("Failed to answer question: <exception>")
    ELSE TextResult("Sorry, I have no answer.")

\* the question-answering branch
answer_question(outcome) ==
    IF outcome.kind = "raise" THEN ErrorResult("Failed to answer question: <exception>")
    ELSE IF outcome.kind = "none" THEN TextResult(NullText)
    ELSE TextResult(outcome.text)

\* synthesize_code that answers a failed completion call with a default script
synthesize_code_with_fallback(outcome) ==
    IF outcome.kind \in {"raise", "none"} THEN CodeResult(<<CodeTok("plot")>>)
    ELSE CodeResult(extract_code(outcome.text))

\* the code generation branch
synthesize_code(outcome) ==
    IF outcome.kind = "raise" THEN ErrorResult("Code generation failed: <exception>")
    ELSE IF outcome.kind = "none" THEN ErrorResult("Code generation failed: <exception>")
    ELSE CodeResult(extract_code(outcome.text))

----------------------------------------------------------------------------
(* main.py: the /generate handler, one action per blocking call *)

Query == "Plot sales"
ChartNote == "Generated chart for: Plot sales"
ErrorNote(error) ==
    IF error = NoPlotError.error
    THEN "Execution error: No plot was generated. Ensure code calls plt.plot() or similar."
    ELSE "Execution error: Execution error: <exception>"

HttpError(code) == [status |-> code]

HasSession(t) == rq[t].session_id # "None"
IsChart(brain) == brain.status = "success" /\ brain.type = "chart_response"

\* main.py 234-248: the session check and the file lookup
\* ReqStartCore that reports an invalid session as a missing file
ReqStartCore_same_status(t, sid, fid) ==
    /\ rq[t].pc = "idle"
    /\ served' = served + 1
    /\ rq' = [rq EXCEPT ![t] =
                IF (sid # "None" /\ get_session(sid) = None) \/ fid \notin KnownFiles
                THEN [Request("done", sid, fid) EXCEPT !.response = HttpError(404)]
                ELSE Request("history", sid, fid)]
    /\ UNCHANGED <<now, tz, uploaded, sessions, ret, convVars, execVars>>

\* main.py 234-245: the session check and the file lookup
ReqStartCore(t, sid, fid) ==
    /\ rq[t].pc = "idle"
    /\ served' = served + 1
    /\ rq' = [rq EXCEPT ![t] =
                IF sid # "None" /\ get_session(sid) = None
                THEN [Request("done", sid, fid) EXCEPT !.response = HttpError(401)]
                ELSE IF fid \notin KnownFiles
                THEN [Request("done", sid, fid) EXCEPT !.response = HttpError(404)]
                ELSE Request("history", sid, fid)]
    /\ UNCHANGED <<now, tz, uploaded, sessions, ret, convVars, execVars>>

ReqStart(t, sid, fid) ==
    /\ served < MaxRequests
    /\ ReqStartCore(t, sid, fid)

\* main.py 250-258: the history read and load_data, which may raise
ReqHistory(t, loads) ==
    /\ rq[t].pc = "history"
    /\ rq' = [rq EXCEPT ![t] =
                IF loads
                THEN [@ EXCEPT !.pc = "classify",
                        !.history = IF HasSession(t)
                                    THEN get_conversation_history(
                                            rq[t].session_id, rq[t].file_id,
                                            MAX_MESSAGES)
                                    ELSE << >>]
                ELSE [@ EXCEPT !.pc = "done", !.response = HttpError(500)]]
    /\ UNCHANGED <<now, tz, uploaded, sessions, ret, convVars, execVars, served>>

\* brain.py 120-122: detect_intent with its completion call
ReqClassify(t, outcome) ==
    /\ rq[t].pc = "classify"
    /\ rq' = [rq EXCEPT ![t] = [@ EXCEPT !.pc = "route", !.llm_out = outcome,
                                         !.llm = <<"classify">>,
                                         !.intent = detect_intent(outcome)]]
    /\ UNCHANGED <<now, tz, uploaded, sessions, ret, convVars, execVars, served>>

\* brain.py 124-158: the branches up to the next completion call
ReqRoute(t) ==
    /\ rq[t].pc = "route"
    /\ LET intent == rq[t].intent
           route == Route(intent)
       IN  rq' = [rq EXCEPT ![t] =
             IF route = "AttributeError"
             THEN [@ EXCEPT !.pc = "done", !.response = HttpError(500)]
             ELSE IF route = "skip"
             THEN [@ EXCEPT !.pc = "log_user", !.brain = Skipped(ScopeMessage)]
             ELSE IF route = "clarify"
             THEN [@ EXCEPT !.pc = "log_user",
                     !.brain = Skipped(Get(intent, "clarification_message", ClarifyDefault))]
             ELSE [@ EXCEPT !.pc = route]]
    /\ UNCHANGED <<now, tz, uploaded, sessions, ret, convVars, execVars, served>>

\* brain.py 141-152: the question-answering completion call
ReqAnswer(t, outcome) ==
    /\ rq[t].pc = "qa"
    /\ rq' = [rq EXCEPT ![t] = [@ EXCEPT !.pc = "log_user", !.llm = Append(@, "qa"),
                                         !.reply = outcome,
                                         !.brain = answer_question(outcome)]]
    /\ UNCHANGED <<now, tz, uploaded, sessions, ret, convVars, execVars, served>>

\* brain.py 160-181: the code generation completion call
ReqSynthesize(t, outcome) ==
    /\ rq[t].pc = "codegen"
    /\ rq' = [rq EXCEPT ![t] = [@ EXCEPT !.pc = "log_user", !.llm = Append(@, "codegen"),
                                         !.reply = outcome,
                                         !.brain = synthesize_code(outcome)]]
    /\ UNCHANGED <<now, tz, uploaded, sessions, ret, convVars, execVars, served>>

\* main.py 270-272: add_message(session, file, 'user', query)
ReqLogUser(t) ==
    /\ rq[t].pc = "log_user"
    /\ rq' = [rq EXCEPT ![t].pc = "after_user"]
    /\ IF HasSession(t)
       THEN AddInsertCore(t, rq[t].session_id, rq[t].file_id, "user", Query)
       ELSE UNCHANGED convVars
    /\ UNCHANGED <<now, tz, uploaded, sessions, ret, execVars, served>>

\* main.py 303: execute_chart_code(code, df)
ReqExecute(t) ==
    /\ rq[t].pc = "after_user"
    /\ pc[t] = "idle"
    /\ IsChart(rq[t].brain)
    /\ ExecStartCore(t, ScriptOf(rq[t].brain.code))
    /\ rq' = [rq EXCEPT ![t].pc = "executing"]
    /\ UNCHANGED <<now, tz, uploaded, sessions, ret, convVars, served>>

\* AssistantMessage that logs the message of the brain result on every path
AssistantMessage_brain_message(t) == rq[t].brain.message

\* The text of the assistant turn on each path
AssistantMessage(t) ==
    IF ~IsChart(rq[t].brain) THEN rq[t].brain.message
    ELSE IF result[t].success THEN ChartNote
    ELSE ErrorNote(result[t].error)

\* main.py 277, 290, 308, 321: add_message(session, file, 'assistant', ...)
ReqLogAssistant(t) ==
    /\ \/ rq[t].pc = "after_user" /\ pc[t] = "idle" /\ ~IsChart(rq[t].brain)
       \/ rq[t].pc = "executing" /\ epc[t] = "idle"
    /\ rq' = [rq EXCEPT ![t].pc = "respond"]
    /\ IF HasSession(t)
       THEN AddInsertCore(t, rq[t].session_id, rq[t].file_id, "assistant",
                          AssistantMessage(t))
       ELSE UNCHANGED convVars
    /\ UNCHANGED <<now, tz, uploaded, sessions, ret, execVars, served>>

\* Response with the turns counted by file, whatever the session
Response_count_by_file(t) ==
    LET brain == rq[t].brain
        count == Cardinality({r \in conversations : r.file_id = rq[t].file_id})
    IN  IF brain.status # "success"
        THEN [status |-> 200, success |-> FALSE, type |-> "text_response",
              message |-> brain.message, message_count |-> count]
        ELSE IF brain.type = "text_response"
        THEN [status |-> 200, success |-> TRUE, type |-> "text_response",
              message |-> brain.message, message_count |-> count]
        ELSE IF result[t].success
        THEN [status |-> 200, success |-> TRUE, type |-> "image_response",
              image |-> result[t].image, code |-> brain.code,
              message |-> "Chart generated.", message_count |-> count]
        ELSE [status |-> 200, success |-> FALSE, type |-> "error_response",
              error |-> result[t].error, code |-> brain.code,
              message |-> "Code generation produced an error during execution.",
              message_count |-> count]

\* The body returned on each path, with the message count read last
Response(t) ==
    LET brain == rq[t].brain
        count == IF HasSession(t)
                 THEN get_message_count(rq[t].session_id, rq[t].file_id) ELSE 0
    IN  IF brain.status # "success"
        THEN [status |-> 200, success |-> FALSE, type |-> "text_response",
              message |-> brain.message, message_count |-> count]
        ELSE IF brain.type = "text_response"
        THEN [status |-> 200, success |-> TRUE, type |-> "text_response",
              message |-> brain.message, message_count |-> count]
        ELSE IF result[t].success
        THEN [status |-> 200, success |-> TRUE, type |-> "image_response",
              image |-> result[t].image, code |-> brain.code,
              message |-> "Chart generated.", message_count |-> count]
        ELSE [status |-> 200, success |-> FALSE, type |-> "error_response",
              error |-> result[t].error, code |-> brain.code,
              message |-> "Code generation produced an error during execution.",
              message_count |-> count]

ReqRespond(t) ==
    /\ rq[t].pc = "respond"
    /\ pc[t] = "idle"
    /\ rq' = [rq EXCEPT ![t] = [@ EXCEPT !.pc = "done", !.response = Response(t)]]
    /\ UNCHANGED <<now, tz, uploaded, sessions, ret, convVars, execVars, served>>

\* The worker takes the next request
ReqClose(t) ==
    /\ rq[t].pc = "done"
    /\ rq' = [rq EXCEPT ![t] = NoRequest]
    /\ UNCHANGED <<now, tz, uploaded, sessions, ret, convVars, execVars, served>>

\* The clock of the store moves on.  The handler reads it in get_session at
\* its start and in its two add_message calls only, so a tick at any other
\* point is the same as a tick before the request or between its two appends.
ReqTick(t) ==
    /\ rq[t].pc \in {"idle", "after_user"}
    /\ pc[t] = "idle"
    /\ epc[t] = "idle"
    /\ now < StartHour + MaxRequestClock
    /\ now' = now + 1
    /\ UNCHANGED <<tz, uploaded, sessions, ret, convVars, execVars, reqVars>>

ReqStep(t) ==
    \/ \E sid \in SessionIds \cup {"None"}, fid \in FileIds : ReqStart(t, sid, fid)
    \/ \E loads \in BOOLEAN : ReqHistory(t, loads)
    \/ \E outcome \in ClassifierOutcomes : ReqClassify(t, outcome)
    \/ ReqRoute(t)
    \/ \E outcome \in QAOutcomes : ReqAnswer(t, outcome)
    \/ \E outcome \in CodegenOutcomes : ReqSynthesize(t, outcome)
    \/ ReqLogUser(t)
    \/ ReqExecute(t)
    \/ ReqLogAssistant(t)
    \/ ReqRespond(t)
    \/ ReqClose(t)

\* One worker serving /generate requests one after the other
NextRequest ==
    \/ ReqStep("t1")
    \/ AddRefresh("t1")
    \/ AddTrim("t1")
    \/ ExecStep("t1")
    \/ ReqTick("t1")
    \/ CreateSession("s1")


SpecRequest == InitRequest /\ [][NextRequest]_vars

\* Every completion call and every script execution returns or fails, and the
\* worker is not stopped in the middle of a request.
SpecRequestLive ==
    SpecRequest /\ WF_vars(ReqStep("t1") \/ AddRefresh("t1") \/ AddTrim("t1") \/ ExecStep("t1"))

----------------------------------------------------------------------------
(* /generate requests of one session on one file, long enough for the log to *)
(* fill: worker t1 serves them one after the other, and worker t2 joins in   *)
(* for the last two.  The classifier finds every query unrelated.            *)

ChatOutcomes ==
    {[kind |-> "text", text |-> <<JsonTok(Obj([is_related |-> FALSE]))>>]}

ChatStart(t) ==
    /\ served < MaxChatRequests
    /\ t = "t2" => served >= MaxChatRequests - 2
    /\ ReqStartCore(t, "s1", "f1")

NextChat ==
    \/ CreateSession("s1")
    \/ \E t \in Threads :
        \/ ChatStart(t)
        \/ ReqHistory(t, TRUE)
        \/ \E outcome \in ChatOutcomes : ReqClassify(t, outcome)
        \/ ReqRoute(t)
        \/ ReqLogUser(t)
        \/ ReqLogAssistant(t)
        \/ ReqRespond(t)
        \/ ReqClose(t)
        \/ AddRefresh(t)
        \/ AddTrim(t)


SpecChat == InitRequest /\ [][NextChat]_vars

----------------------------------------------------------------------------
(* /generate requests without a session id on a file that a session has     *)
(* talked about: the first request of worker t1 is on session s1, with an    *)
(* unrelated query, and the ones after it carry no session id.              *)

AnonStart(t) ==
    /\ served < MaxAnonRequests
    /\ \E fid \in FileIds : ReqStartCore(t, IF served = 0 THEN "s1" ELSE "None", fid)

NextAnon ==
    \/ CreateSession("s1")
    \/ AnonStart("t1")
    \/ \E loads \in BOOLEAN : ReqHistory("t1", loads)
    \/ \E outcome \in IF HasSession("t1") THEN ChatOutcomes ELSE ClassifierOutcomes :
            ReqClassify("t1", outcome)
    \/ ReqRoute("t1")
    \/ \E outcome \in QAOutcomes : ReqAnswer("t1", outcome)
    \/ \E outcome \in CodegenOutcomes : ReqSynthesize("t1", outcome)
    \/ ReqLogUser("t1")
    \/ ReqExecute("t1")
    \/ ReqLogAssistant("t1")
    \/ ReqRespond("t1")
    \/ ReqClose("t1")
    \/ AddRefresh("t1")
    \/ AddTrim("t1")
    \/ ExecStep("t1")

SpecAnon == InitRequest /\ [][NextAnon]_vars

----------------------------------------------------------------------------
(* A /generate request on session s1 while the clock runs and another server *)
(* process on the same database file starts, reaping as it starts (main.py   *)
(* 42-47).  The classifier finds the query unrelated.                        *)

NextRestart ==
    \/ CreateSession("s1")
    \/ served < MaxReapRequests /\ ReqStartCore("t1", "s1", "f1")
    \/ ReqHistory("t1", TRUE)
    \/ \E outcome \in ChatOutcomes : ReqClassify("t1", outcome)
    \/ ReqRoute("t1")
    \/ ReqLogUser("t1")
    \/ ReqLogAssistant("t1")
    \/ ReqRespond("t1")
    \/ ReqClose("t1")
    \/ AddRefresh("t1")
    \/ AddTrim("t1")
    \/ CleanupExpiredSessions
    \/ Tick

SpecRestart == InitRequest /\ [][NextRestart]_vars

----------------------------------------------------------------------------
(* Claims about the executor *)

\* The section from clearing the figure state to extracting the image or
\* handling the error.
InRenderSection(t) == epc[t] \in {"exec", "get_fignums", "savefig", "close", "except"}

\* C4: at most one execute_chart_code call at a time is inside the section.
C4_OneCallInRenderSection ==
    \A t1 \in Threads : \A t2 \in Threads :
        (InRenderSection(t1) /\ InRenderSection(t2)) => t1 = t2

\* C5: each call returns what its script returns when it runs alone.
C5_ResultAsIfAlone ==
    \A t \in Threads :
        (epc[t] = "idle" /\ result[t] # None) =>
            result[t] = execute_chart_code(script[t], <<>>, "default", t)

\* The execute_chart_code call of t has returned
Returned(t) == epc[t] = "idle" /\ result[t] # None

\* C19: a script that creates no figure makes execute_chart_code return the
\* no-plot error (success false), never a success result with an image.
C19_NoFigureGivesNoPlotError ==
    \A t \in Threads :
        (Returned(t) /\ script[t] = "nothing") => result[t] = NoPlotError

\* C20: in a sequence of calls made one after the other, each call returns
\* what it would return as the first call of the process, whatever figures or
\* style settings earlier scripts left; in particular a script that draws
\* nothing gets the no-plot error.
C20_EachCallAsIfFirst ==
    \A t \in Threads :
        Returned(t) =>
            /\ result[t] = execute_chart_code(script[t], << >>, "default", t)
            /\ script[t] = "nothing" => result[t] = NoPlotError

C22_NoFigureLeftOpen ==
    \A t \in Threads : Returned(t) => figs = << >>

\* C23: the script resolves no name but df, pd and plt: when it starts to run
\* its environment binds these three alone (nothing an earlier script defined
\* survives), no built-in and no other name resolves in it, and a script that
\* imports a module or reads a name of an earlier script gets an error.
C23_OnlyInjectedNamesResolve ==
    \A t \in Threads :
        /\ epc[t] = "exec" =>
                /\ local_env[t] = InjectedNames
                /\ \A name \in Builtins \cup {"x", "os", "img_buf"} :
                        ~Resolves(name, local_env[t])
        /\ (Returned(t) /\ script[t] \in {"import", "use"}) =>
                /\ "success" \in DOMAIN result[t]
                /\ ~result[t].success

----------------------------------------------------------------------------
(* Claims about the profile *)

\* The floats found in a value at any depth of its dicts and lists
RECURSIVE FloatsIn(_)
FloatsIn(obj) ==
    IF "float" \in DOMAIN obj THEN {obj.float}
    ELSE IF "dict" \in DOMAIN obj
    THEN UNION {FloatsIn(obj.dict[k]) : k \in DOMAIN obj.dict}
    ELSE IF "list" \in DOMAIN obj
    THEN UNION {FloatsIn(obj.list[i]) : i \in 1..Len(obj.list)}
    ELSE {}

\* out is obj with None in the place of each NaN and each infinity, and with
\* nothing else changed
RECURSIVE OnlyNonFiniteReplaced(_, _)
OnlyNonFiniteReplaced(obj, out) ==
    IF "float" \in DOMAIN obj
    THEN out = IF obj.float \in {"nan", "inf", "-inf"} THEN None ELSE obj
    ELSE IF "dict" \in DOMAIN obj
    THEN /\ DOMAIN out = {"dict"}
         /\ DOMAIN out.dict = DOMAIN obj.dict
         /\ \A k \in DOMAIN obj.dict : OnlyNonFiniteReplaced(obj.dict[k], out.dict[k])
    ELSE IF "list" \in DOMAIN obj
    THEN /\ DOMAIN out = {"list"}
         /\ Len(out.list) = Len(obj.list)
         /\ \A i \in 1..Len(obj.list) : OnlyNonFiniteReplaced(obj.list[i], out.list[i])
    ELSE out = obj

\* C26: the profile generate_profile returns for a table holds no NaN and no
\* infinity at any depth of its dicts and lists; each one is replaced by None
\* and every other value is as generate_profile built it.
C26_ProfileHasNoNonFinite ==
    uploaded # None =>
        /\ FloatsIn(uploaded.profile) \cap {"nan", "inf", "-inf"} = {}
        /\ OnlyNonFiniteReplaced(profile_dict(uploaded.df), uploaded.profile)

\* C26 witness: a table with a NaN, an infinity and a finite number in its
\* cells has been profiled.
C26_witness_NonFiniteCellsProfiled ==
    /\ uploaded # None
    /\ {"nan", "inf", "finite"} \subseteq FloatsIn(profile_dict(uploaded.df).dict.sample_rows)
    /\ "finite" \in FloatsIn(uploaded.profile.dict.sample_rows)

----------------------------------------------------------------------------
(* Claims about the conversation store *)

IdsOf(rows) == {r.id : r \in rows}

LastN(seq, n) == SubSeq(seq, Len(seq) - Min(n, Len(seq)) + 1, Len(seq))

HistoryContents(s, f) ==
    LET h == get_conversation_history(s, f, MAX_MESSAGES)
    IN  [i \in 1..Len(h) |-> h[i].content]

\* C1: for every key, in every reachable state (also between an add_message's
\* insert and its trim), the number of stored turns is at most MAX_MESSAGES.
C1_CountNeverAboveMax ==
    \A k \in Keys : get_message_count(k[1], k[2]) <= MAX_MESSAGES

\* C2: after N sequential add_message calls on one key from an empty log,
\* get_conversation_history returns the last min(N, 10) turns appended, in
\* append order, whatever timestamps the turns were stored with.
C2_HistoryIsLastAppendedInOrder ==
    AllIdle => \A k \in Keys :
        HistoryContents(k[1], k[2]) = LastN(appended[k], MAX_MESSAGES)

\* C3: once two interleaved add_message calls on one key have both finished,
\* neither new turn is lost, the log holds min(previous count + 2, 10) turns,
\* and every turn trimmed is older than every turn retained.
C3_ConcurrentAppendsAsIfSerial ==
    \A k \in Keys :
        (/\ AllIdle
         /\ Cardinality(episode.new) = 2
         /\ episode.new \subseteq Range(appended[k]))
        => LET before == IdsOf(RowsOf(episode.base, k[1], k[2]))
               stored == IdsOf(RowsOf(conversations, k[1], k[2]))
               removed == (before \cup episode.new) \ stored
           IN  /\ episode.new \subseteq stored
               /\ Cardinality(stored) = Min(Cardinality(before) + 2, MAX_MESSAGES)
               /\ \A r \in removed : \A q \in stored : r < q


----------------------------------------------------------------------------
(* Claims about sessions *)

\* The hours that have passed since the session's last_active was written.
HoursSinceActive(s) == now - fromisoformat(sessions[s].last_active)

\* C6: get_session(id) returns None exactly when no session with that id is
\* stored or more than 24 hours have passed since its last_active was written.
C6_GetSessionNoneIffMissingOrExpired ==
    ret.op = "get_session" =>
        (ret.value = None <=>
            \/ ret.id \notin DOMAIN sessions
            \/ HoursSinceActive(ret.id) > SESSION_EXPIRY_HOURS)

\* C7: at any instant cleanup_expired_sessions deletes a session if and only
\* if get_session would return None for it at that instant.
C7_ReapAgreesWithGetSession ==
    [][CleanupExpiredSessions =>
        \A s \in DOMAIN sessions :
            (s \notin DOMAIN sessions') <=> (get_session(s) = None)]_vars

\* A turn was appended to session s within the last 24 hours, by an
\* add_message call that has returned
RecentTurn(s) ==
    /\ AllIdle
    /\ s \in DOMAIN sessions
    /\ \E r \in conversations :
            /\ r.session_id = s
            /\ now - fromisoformat(r.timestamp) <= SESSION_EXPIRY_HOURS

\* C27: add_message refreshes last_active, so get_session returns a session
\* (it does not report it expired) whenever a turn was appended to it within
\* the last 24 hours, and in particular right after an add_message.
C27_AppendKeepsSessionAlive ==
    (ret.op = "get_session" /\ RecentTurn(ret.id)) => ret.value # None

\* C28: in the step in which cleanup_expired_sessions removes sessions it
\* removes every turn of these sessions, whatever the file, so that no stored
\* turn refers to a removed session, and it returns the number of sessions it
\* removed.
C28_ReapRemovesTurnsWithSessions ==
    [][CleanupExpiredSessions =>
        LET removed == DOMAIN sessions \ DOMAIN sessions'
        IN  /\ \A r \in conversations' : r.session_id \notin removed
            /\ ret'.value = Cardinality(removed)]_vars

\* C28 witness: the reap has removed one session that had turns on two files.
C28_witness_ReapedSessionOfTwoFiles ==
    /\ ret = [op |-> "cleanup_expired_sessions", value |-> 1]
    /\ "s1" \notin DOMAIN sessions
    /\ Len(appended[<<"s1", "f1">>]) = 1
    /\ Len(appended[<<"s1", "f2">>]) = 1
    /\ conversations = {}

----------------------------------------------------------------------------
(* Claims about the classifier and the routing *)

Classified(t) == rq[t].pc # "idle" /\ rq[t].llm_out # None

\* The completion call raised, returned nothing, or returned a text that is
\* not JSON once stripped and freed of its fences
ClassifierFailed(outcome) ==
    \/ outcome.kind \in {"raise", "none"}
    \/ outcome.kind = "text" /\ ~json_loads(CleanedText(outcome.text)).ok

\* C8: when the completion call of detect_intent raises, or its text is not
\* parseable as JSON after the fences are stripped, detect_intent returns a
\* decision (it does not raise) with is_related true, is_visualization true,
\* needs_clarification false and a non-empty rationale recording the failure.
C8_FallbackOnClassifierFailure ==
    \A t \in Threads :
        Classified(t) /\ ClassifierFailed(rq[t].llm_out) =>
            /\ rq[t].intent.type = "object"
            /\ {"is_related", "is_visualization", "needs_clarification", "rationale"}
                    \subseteq DOMAIN rq[t].intent.fields
            /\ rq[t].intent.fields.is_related = TRUE
            /\ rq[t].intent.fields.is_visualization = TRUE
            /\ rq[t].intent.fields.needs_clarification = FALSE
            /\ rq[t].intent.fields.rationale = "Parsing failed: <exception>"

\* C8 witness: the classification call returned prose inside fences, the
\* fallback decision was taken and the request went on to code generation.
C8_witness_UnparseableAndRouted ==
    /\ Classified("t1")
    /\ rq["t1"].llm_out = [kind |-> "text", text |-> <<FENCE_JSON, WS, PROSE, WS, FENCE>>]
    /\ rq["t1"].intent = Fallback
    /\ rq["t1"].pc = "codegen"

\* C9: whatever the classification call does (raise, unparseable text, JSON of
\* any shape), the request ends in a defined result and never in HTTP 500.
C9_NoClassifierOutcomeGives500 ==
    \A t \in Threads :
        Classified(t) /\ rq[t].pc = "done" => rq[t].response.status # 500

\* C10: a decision with is_related true and needs_clarification true ends in
\* CLARIFY: status skipped with the classifier's clarification message, and no
\* completion call after the classification, whatever is_visualization says.
C10_ClarificationWins ==
    \A t \in Threads :
        /\ Classified(t)
        /\ rq[t].pc \in {"log_user", "after_user", "respond"}
        /\ rq[t].intent.type = "object"
        /\ Get(rq[t].intent, "is_related", FALSE) = TRUE
        /\ Get(rq[t].intent, "needs_clarification", FALSE) = TRUE
        => /\ rq[t].brain =
                Skipped(Get(rq[t].intent, "clarification_message", ClarifyDefault))
           /\ rq[t].llm = <<"classify">>

\* The request of t has its intent decision, which is a JSON object
Decided(t) == Classified(t) /\ rq[t].pc # "route" /\ rq[t].intent.type = "object"

\* The request of t has the result of generate_visualization
HasBrain(t) == Classified(t) /\ rq[t].brain # None

\* C11: a decision with is_related false ends in SKIP whatever the other flags
\* say: status skipped with the fixed scope message, no completion call after
\* the classification, and no code synthesis or execution.
C11_UnrelatedIsSkipped ==
    \A t \in Threads :
        Decided(t) /\ "is_related" \in DOMAIN rq[t].intent.fields
                   /\ rq[t].intent.fields.is_related = FALSE
        => /\ rq[t].brain = Skipped(ScopeMessage)
           /\ rq[t].llm = <<"classify">>
           /\ rq[t].pc \notin {"qa", "codegen", "executing"}
           /\ epc[t] = "idle"

\* C11 witness: an unrelated query flagged both as a visualization and as
\* needing clarification has been answered with the scope message.
C11_witness_UnrelatedAnswered ==
    /\ Decided("t1")
    /\ rq["t1"].pc = "done"
    /\ Get(rq["t1"].intent, "is_related", TRUE) = FALSE
    /\ Get(rq["t1"].intent, "is_visualization", FALSE) = TRUE
    /\ Get(rq["t1"].intent, "needs_clarification", FALSE) = TRUE
    /\ rq["t1"].response.message = ScopeMessage

\* The decision of t asks for an answer in words
WantsAnswer(t) ==
    /\ Decided(t)
    /\ Get(rq[t].intent, "is_related", FALSE) = TRUE
    /\ Get(rq[t].intent, "is_visualization", FALSE) = FALSE

\* C12: a decision with is_related true and is_visualization false ends in
\* ANSWER: exactly one question-answering completion call is made and, when it
\* returns, its text is handed back unchanged as a successful text_response;
\* no code is synthesized or executed.
C12_AnswerPathReturnsCompletionText ==
    \A t \in Threads :
        WantsAnswer(t) =>
            /\ rq[t].pc \notin {"codegen", "executing"}
            /\ epc[t] = "idle"
            /\ rq[t].pc = "qa" => rq[t].llm = <<"classify">>
            /\ rq[t].pc # "qa" =>
                    /\ rq[t].llm = <<"classify", "qa">>
                    /\ rq[t].reply.kind = "text" =>
                            rq[t].brain = TextResult(rq[t].reply.text)
                    /\ rq[t].pc = "done" /\ rq[t].reply.kind = "text" =>
                            /\ rq[t].response.success = TRUE
                            /\ rq[t].response.type = "text_response"
                            /\ rq[t].response.message = rq[t].reply.text

\* C12 witness: a question about the data was answered and the answer sent.
C12_witness_AnswerSent ==
    /\ WantsAnswer("t1")
    /\ rq["t1"].pc = "done"
    /\ rq["t1"].reply = [kind |-> "text", text |-> "The answer."]
    /\ rq["t1"].response.message = "The answer."

\* The decision of t asks for a chart and the synthesis call returned a text
WantsChart(t) ==
    /\ Decided(t)
    /\ Get(rq[t].intent, "is_related", FALSE) = TRUE
    /\ Get(rq[t].intent, "is_visualization", FALSE) = TRUE
    /\ Get(rq[t].intent, "needs_clarification", FALSE) = FALSE
SynthesisSucceeded(t) ==
    /\ rq[t].llm = <<"classify", "codegen">>
    /\ rq[t].reply # None
    /\ rq[t].reply.kind = "text"

\* C13: the executor is entered by a request exactly when its decision is
\* related, visualization, no clarification and code synthesis succeeded; such
\* a request cannot be answered without the executor, and it ends in CHART
\* (image_response, success, image and code) exactly when the execution
\* succeeded and in RENDER_ERROR (error_response, error and code) otherwise.
C13_ExecutorOnlyOnChartPath ==
    [][\A t \in Threads :
        /\ (epc[t] = "idle" /\ epc'[t] # "idle") =>
                WantsChart(t) /\ SynthesisSucceeded(t)
        /\ (rq[t].pc = "after_user" /\ rq'[t].pc # "after_user"
                /\ WantsChart(t) /\ SynthesisSucceeded(t)) =>
                rq'[t].pc = "executing" /\ epc'[t] # "idle"
        /\ (rq[t].pc = "respond" /\ rq'[t].pc = "done"
                /\ WantsChart(t) /\ SynthesisSucceeded(t)) =>
                IF result[t].success
                THEN rq'[t].response =
                        [status |-> 200, success |-> TRUE, type |-> "image_response",
                         image |-> result[t].image, code |-> rq[t].brain.code,
                         message |-> "Chart generated.",
                         message_count |-> rq'[t].response.message_count]
                ELSE /\ rq'[t].response.success = FALSE
                     /\ rq'[t].response.type = "error_response"
                     /\ rq'[t].response.error = result[t].error
                     /\ rq'[t].response.code = rq[t].brain.code
    ]_vars

\* C13 witness: a request on the chart path ran the executor and ended in CHART.
C13_witness_ChartSent ==
    /\ WantsChart("t1") /\ SynthesisSucceeded("t1")
    /\ rq["t1"].pc = "done"
    /\ rq["t1"].response.type = "image_response"
    /\ result["t1"].success

\* C24: the code body of a successful synthesis is the content of the first
\* fenced block of the completion text, whatever its language tag and without
\* the tag and the fence markers, and is the entire text when it has no fence.
C24_CodeIsFirstFencedBlock ==
    \A t \in Threads :
        SynthesisSucceeded(t) =>
            LET text == rq[t].reply.text
                block == BeforeFirst(AfterFirst(text, Fences), Fences)
            IN  /\ rq[t].brain.status = "success"
                /\ rq[t].brain.code = IF Positions(text, Fences) = {} THEN text
                                      ELSE Strip(Remove(block, TAG))

\* C25: a decision that states is_related true and needs_clarification false
\* and does not state is_visualization goes to code synthesis: the second
\* completion call is the code generation call and, when it returns a text,
\* the result is a success carrying the code extracted from it.
C25_MissingVisualizationFlagSynthesizes ==
    \A t \in Threads :
        ( /\ Decided(t)
          /\ rq[t].brain # None
          /\ "is_visualization" \notin DOMAIN rq[t].intent.fields
          /\ Get(rq[t].intent, "is_related", FALSE) = TRUE
          /\ Get(rq[t].intent, "needs_clarification", TRUE) = FALSE ) =>
            /\ rq[t].llm = <<"classify", "codegen">>
            /\ rq[t].reply.kind = "text" =>
                    /\ rq[t].brain.status = "success"
                    /\ rq[t].brain.type = "chart_response"
                    /\ rq[t].brain.code = extract_code(rq[t].reply.text)

\* C29: a /generate request that is rejected before the core runs (its session
\* id is given but the session is missing or expired, its file id is unknown,
\* or its table fails to load) makes no completion call, starts no script and
\* leaves the conversations and the sessions as they are; the invalid session
\* is answered 401 and the unknown file 404.
C29_RejectedRequestTouchesNothing ==
    [][\A t \in Threads :
        /\ (rq[t].pc = "idle" /\ rq'[t].pc # "idle") =>
                LET sid == rq'[t].session_id
                    fid == rq'[t].file_id
                    invalid == sid # "None" /\ get_session(sid) = None
                IN  /\ invalid =>
                            rq'[t].pc = "done" /\ rq'[t].response = HttpError(401)
                    /\ (~invalid /\ fid \notin KnownFiles) =>
                            rq'[t].pc = "done" /\ rq'[t].response = HttpError(404)
        /\ (rq[t].pc \in {"idle", "history"} /\ rq'[t].pc = "done") =>
                /\ rq'[t].response \in {HttpError(401), HttpError(404), HttpError(500)}
                /\ rq'[t].llm = << >>
                /\ rq'[t].llm_out = None
                /\ UNCHANGED <<conversations, sessions, epc, script>>
    ]_vars

\* C29 witness: a request on a live session was rejected as its table failed
\* to load.
C29_witness_LoadFailureRejected ==
    /\ rq["t1"].pc = "done"
    /\ rq["t1"].response = HttpError(500)
    /\ rq["t1"].llm_out = None
    /\ rq["t1"].session_id = "s1"
    /\ get_session("s1") # None

\* C30: when the completion call of the question-answering step or of the
\* code-synthesis step fails, the result of the step is an error carrying the
\* failure message (no default decision or script stands in for it), the
\* executor is not entered, and the request ends with success false and that
\* message.
C30_CompletionFailureIsTerminal ==
    \A t \in Threads :
        (rq[t].reply # None /\ rq[t].reply.kind = "raise") =>
            /\ rq[t].brain \in {ErrorResult("Failed to answer question: <exception>"),
                                ErrorResult("Code generation failed: <exception>")}
            /\ rq[t].brain.message = IF rq[t].llm[2] = "qa"
                                      THEN "Failed to answer question: <exception>"
                                      ELSE "Code generation failed: <exception>"
            /\ rq[t].pc # "executing" /\ epc[t] = "idle"
            /\ rq[t].pc = "done" =>
                    /\ rq[t].response.success = FALSE
                    /\ rq[t].response.message = rq[t].brain.message

\* C30 witness: a request whose code-synthesis call failed has been answered.
C30_witness_SynthesisFailureSent ==
    /\ rq["t1"].pc = "done"
    /\ rq["t1"].llm = <<"classify", "codegen">>
    /\ rq["t1"].reply = [kind |-> "raise"]
    /\ rq["t1"].response.success = FALSE

\* The decision of t asks for a clarification
WantsClarification(t) ==
    /\ Decided(t)
    /\ Get(rq[t].intent, "is_related", FALSE) = TRUE
    /\ Get(rq[t].intent, "is_visualization", FALSE) = TRUE
    /\ Get(rq[t].intent, "needs_clarification", FALSE) = TRUE

\* C31: on the CLARIFY path the message of the result is the clarification
\* message of the decision when the decision carries one, and the fixed default
\* text when the field is missing or null; it is never a null.
C31_ClarifyMessageIsText ==
    \A t \in Threads :
        WantsClarification(t) =>
            LET f == rq[t].intent.fields
                supplied == "clarification_message" \in DOMAIN f
                                /\ f.clarification_message # NullText
            IN  /\ rq[t].brain.status = "skipped"
                /\ rq[t].brain.message = IF supplied THEN f.clarification_message
                                          ELSE ClarifyDefault
                /\ rq[t].brain.message # NullText

\* The request of t carries no session id
Anonymous(t) == rq[t].pc # "idle" /\ rq[t].session_id = "None"

\* C32: a /generate request without a session id writes nothing to the
\* conversation store and reads nothing from it on any path: no step of it
\* changes the conversations or a session's last_active, it never enters
\* add_message, the history it hands to the pipeline is empty and the
\* message_count of its response is 0, whatever the store holds for its file.
C32_NoSessionNoStoreAccess ==
    /\ [](\A t \in Threads :
            Anonymous(t) =>
                /\ rq[t].history = << >>
                /\ pc[t] = "idle"
                /\ (rq[t].pc = "done" /\ rq[t].response.status = 200) =>
                        rq[t].response.message_count = 0)
    /\ [][Anonymous("t1")' =>
            /\ UNCHANGED <<conversations, nextId, appended>>
            /\ \A s \in DOMAIN sessions :
                    s \in DOMAIN sessions' /\ sessions'[s] = sessions[s]]_vars

\* C32 witness: a chart has been returned to a request without a session id
\* on a file for which a session has stored turns.
C32_witness_AnonymousChartOnUsedFile ==
    /\ Anonymous("t1")
    /\ rq["t1"].pc = "done"
    /\ rq["t1"].response.status = 200
    /\ rq["t1"].response.type = "image_response"
    /\ get_message_count("s1", rq["t1"].file_id) = 2

\* The terminal states the finished request of t is in
TerminalStates(t) ==
    IF rq[t].pc # "done" \/ rq[t].response.status # 200 THEN {}
    ELSE LET brain == rq[t].brain
             response == rq[t].response
             route == Route(rq[t].intent)
         IN  {x \in {"SKIP", "CLARIFY", "ANSWER", "CHART", "RENDER_ERROR", "ERROR"} :
                \/ x = "SKIP" /\ route = "skip" /\ brain.status = "skipped"
                \/ x = "CLARIFY" /\ route = "clarify" /\ brain.status = "skipped"
                \/ x = "ANSWER" /\ route = "qa" /\ brain.status = "success"
                \/ x = "CHART" /\ route = "codegen" /\ response.type = "image_response"
                \/ x = "RENDER_ERROR" /\ route = "codegen" /\ response.type = "error_response"
                \/ x = "ERROR" /\ brain.status = "error"}

\* C33: every request that got as far as the classifier ends (given that each
\* completion call and each script execution returns or fails), it ends in
\* exactly one of SKIP, CLARIFY, ANSWER, CHART, RENDER_ERROR and the
\* completion-failure error, and no step of it is taken twice: a request makes
\* at most one completion call of each kind, never goes back to the classifier
\* and leaves its terminal state only for the worker to take the next request.
C33_RequestEndsInOneTerminalState ==
    /\ \A t \in {"t1"} : Classified(t) ~> rq[t].pc = "done"
    /\ [](\A t \in Threads :
            (Classified(t) /\ rq[t].pc = "done") => Cardinality(TerminalStates(t)) = 1)
    /\ [][\A t \in Threads :
            /\ (Classified(t) /\ rq'[t].pc # "idle") =>
                    /\ rq'[t].pc # "classify"
                    /\ rq'[t].llm_out = rq[t].llm_out
                    /\ Len(rq'[t].llm) <= 2
            /\ rq[t].pc = "done" => rq'[t] \in {rq[t], NoRequest}]_vars

\* C34: generate_suggestions returns exactly three suggestions for every
\* profile, whatever the numbers of numeric, categorical and date columns are,
\* a profile without columns included.
C34_AlwaysThreeSuggestions ==
    uploaded # None => Len(uploaded.suggestions) = 3

\* C34 witness: a dataset without columns got three suggestions, each of them
\* the data preview.
C34_witness_NoColumnsThreePreviews ==
    /\ uploaded # None
    /\ uploaded.profile.dict.columns.list = << >>
    /\ Len(uploaded.suggestions) = 3
    /\ \A i \in 1..3 : uploaded.suggestions[i].type = "preview"

\* C35: expiry is permanent.  A stored session that get_session reports
\* expired is not reported live again, whatever is called after that:
\* add_message, get_session, or the clock moving on.
C35_ExpiredStaysExpired ==
    [][\A s \in DOMAIN sessions :
        get_session(s) = None => get_session(s)' = None]_vars

\* C36: every stored turn belongs to a session that is in the sessions
\* table, also when cleanup_expired_sessions runs between the session check
\* of a request and its appends.
C36_EveryTurnHasItsSession ==
    \A r \in conversations : r.session_id \in DOMAIN sessions

\* C37: in the log of a key the roles alternate in append order, each user
\* turn being followed at once by the assistant turn of the same request: two
\* stored turns of a key with no stored turn of the key appended between them
\* are a user turn and an assistant turn, also with two requests on the key
\* at the same time.
C37_RolesAlternate ==
    \A k \in Keys :
        LET log == RowsOf(conversations, k[1], k[2])
        IN  \A r, q \in log :
                (r.id < q.id /\ ~\E x \in log : r.id < x.id /\ x.id < q.id) =>
                    r.role = "user" <=> q.role = "assistant"

\* C38: get_conversation_history returns at most limit turns (10 by default,
\* the call of /generate) in every reachable state, the states included in
\* which concurrent add_message calls have inserted and not yet trimmed, so
\* that the key holds more than MAX_MESSAGES turns.
C38_HistoryWithinLimit ==
    \A k \in StoreKeys : \A limit \in {1, MAX_MESSAGES} :
        Len(get_conversation_history(k[1], k[2], limit)) <= limit

\* C38 witness: two add_message calls have inserted and not yet trimmed, the
\* key holds 12 turns, and the history of the key has 10.
C38_witness_FullHistoryOfOverfullKey ==
    /\ pc = [t \in Threads |-> "inserted"]
    /\ get_message_count("s1", "f1") = MAX_MESSAGES + 2
    /\ Len(get_conversation_history("s1", "f1", MAX_MESSAGES)) = MAX_MESSAGES

----------------------------------------------------------------------------
(* Claims about the keys of the store *)

\* Every turn get_conversation_history gives for a key was appended on it
\* (the n-th add_message call carries the text n)
HistoryFromOwnKey ==
    \A k \in Keys :
        \A x \in Range(HistoryContents(k[1], k[2])) : x \in Range(appended[k])

\* C17: an add_message (its insert and its trim) and a clear_conversation on
\* one key change the stored turns of no other key, and the history of a key
\* holds only turns appended with exactly that key.
C17_OtherKeysUntouched ==
    /\ []HistoryFromOwnKey
    /\ [][LET Changed == (conversations' \ conversations)
                              \cup (conversations \ conversations')
              Touched == {<<r.session_id, r.file_id>> : r \in Changed}
          IN  /\ \A t \in Threads :
                   /\ (pc[t] = "idle" /\ pc'[t] = "inserted") =>
                           Touched = {<<arg'[t].session_id, arg'[t].file_id>>}
                   /\ (pc[t] = "refreshed" /\ pc'[t] = "idle") =>
                           Touched \subseteq {<<arg[t].session_id, arg[t].file_id>>}
              /\ (pc' = pc /\ ret'.op = "clear_conversation") =>
                       Touched \subseteq {<<ret'.session_id, ret'.file_id>>}
       ]_vars

\* C17 witness: the busy key has just been trimmed while another file of the
\* same session holds a turn.
C17_witness_TrimBesideOtherKey ==
    /\ AllIdle
    /\ Len(appended[<<"s1", "f1">>]) = MAX_MESSAGES + 1
    /\ get_message_count("s1", "f1") = MAX_MESSAGES
    /\ get_message_count("s1", "f2") = 1

\* C18: when clear_conversation(s, d) has completed, the history of (s, d) is
\* empty and its message count is 0, and the session is as before: get_session
\* gives for every session what it gave before the clear.
C18_ClearEmptiesKeyKeepsSession ==
    [][\A k \in Keys :
        (pc' = pc /\ ret' = [op |-> "clear_conversation",
                            session_id |-> k[1], file_id |-> k[2]]) =>
            /\ get_conversation_history(k[1], k[2], MAX_MESSAGES)' = << >>
            /\ get_message_count(k[1], k[2])' = 0
            /\ sessions' = sessions
            /\ \A s \in SessionIds : get_session(s)' = get_session(s)
    ]_vars

\* C18 witness: a key that held turns has been cleared and its session lives.
C18_witness_ClearedLiveSession ==
    /\ ret.op = "clear_conversation"
    /\ ret.session_id = "s1" /\ ret.file_id = "f1"
    /\ Len(appended[<<"s1", "f1">>]) >= 3
    /\ get_message_count("s1", "f1") = 0
    /\ get_message_count("s1", "f2") = 1
    /\ get_session("s1") # None

----------------------------------------------------------------------------
(* Claims about the turns a request logs *)

KeyOf(t) == <<rq[t].session_id, rq[t].file_id>>

\* The row of the key's log with identifier i
RowById(i) == CHOOSE r \in conversations : r.id = i

\* The request of t, on a session, has made both its appends and the second
\* append has finished its trim
Logged(t) == rq[t].pc = "respond" /\ pc[t] = "idle" /\ HasSession(t)

\* C14: a request with a valid session that reaches a terminal result appends
\* exactly one user turn holding the raw query and then exactly one assistant
\* turn, and with no other request on the key get_conversation_history then
\* ends with that user turn followed by that assistant turn.
C14_TwoTurnsUserThenAssistant ==
    \A t \in Threads :
        Logged(t) =>
            LET log == appended[KeyOf(t)]
                n == Len(log)
                h == get_conversation_history(rq[t].session_id, rq[t].file_id,
                                              MAX_MESSAGES)
            IN  /\ n = Len(rq[t].log0) + 2
                /\ SubSeq(log, 1, n - 2) = rq[t].log0
                /\ RowById(log[n - 1]).role = "user"
                /\ RowById(log[n - 1]).message = Query
                /\ RowById(log[n]).role = "assistant"
                /\ Len(h) >= 2
                /\ h[Len(h) - 1].role = "user"
                /\ h[Len(h) - 1].content = Query
                /\ h[Len(h)].role = "assistant"
                /\ h[Len(h)].content = RowById(log[n]).message

\* The request of t, on a session, has sent its response
Answered(t) == rq[t].pc = "done" /\ HasSession(t) /\ HasBrain(t)

\* The last turn appended on the key of t
LastTurn(t) == RowById(appended[KeyOf(t)][Len(appended[KeyOf(t)])])

\* C15: the assistant turn of a request is the full response message on the
\* text paths, the fixed note on the CHART path and the error description on
\* the RENDER_ERROR path; every stored turn is the query or one of these, so
\* the synthesized code is never stored.
C15_AssistantTurnContent ==
    \A t \in Threads :
        Answered(t) =>
            /\ LastTurn(t).role = "assistant"
            /\ rq[t].response.type = "text_response" =>
                    LastTurn(t).message = rq[t].response.message
            /\ rq[t].response.type = "image_response" =>
                    LastTurn(t).message = ChartNote
            /\ rq[t].response.type = "error_response" =>
                    LastTurn(t).message = ErrorNote(rq[t].response.error)
            /\ \A r \in RowsOf(conversations, rq[t].session_id, rq[t].file_id) :
                    \/ r.role = "user" /\ r.message = Query
                    \/ r.role = "assistant" /\ r.message \in
                            {ScopeMessage, ClarifyDefault, "What columns?", NullText,
                             "The answer.", ChartNote,
                             ErrorNote(NoPlotError.error), ErrorNote(ExecutionError(exec_exception("raise")).error),
                             "Failed to answer question: <exception>",
                             "Code generation failed: <exception>"}

\* C15 witness: a request on a session ended in CHART and logged the note.
C15_witness_ChartNoteLogged ==
    /\ Answered("t1")
    /\ rq["t1"].response.type = "image_response"
    /\ rq["t1"].brain.code # << >>
    /\ LastTurn("t1").message = ChartNote

\* C16: the message_count a request on a session returns is the number of
\* turns stored for its key after its two appends and trim; it never exceeds
\* MAX_MESSAGES, and when no other request appended on the key meanwhile it is
\* min(count before the request + 2, MAX_MESSAGES).
C16_MessageCountAfterAppends ==
    \A t \in Threads :
        Answered(t) =>
            /\ rq[t].response.message_count <= MAX_MESSAGES
            /\ (appended[KeyOf(t)] = rq[t].log0 \o LastN(appended[KeyOf(t)], 2)
                    /\ \A u \in Threads \ {t} : pc[u] = "idle") =>
                    rq[t].response.message_count = Min(rq[t].count0 + 2, MAX_MESSAGES)

----------------------------------------------------------------------------
(* The whole program *)

Next ==
    \/ NextStore \/ NextBurst \/ NextKeys \/ NextSess \/ NextKeepAlive \/ NextReap
    \/ NextExec \/ NextData \/ NextDemo \/ NextRequest \/ NextChat \/ NextAnon
    \/ NextRestart
Spec == Init /\ [][Next]_vars
====
